---------------------------- MODULE Spec2Model ----------------------------
(***************************************************************************)
(* pickai core: classification, scoring, selection and recommendation of   *)
(* AI-model records.  Every public operation is a pure function; a call is *)
(* modelled as a small state machine whose initial state holds the         *)
(* arguments and whose actions are the steps of the function body.         *)
(*                                                                         *)
(* Conventions                                                             *)
(*  - an optional field (`x?: T`, or a value that may be undefined) is a   *)
(*    sequence of length 0 (absent) or 1 (present);                        *)
(*  - strings are TLA+ strings, searched and lower-cased character by      *)
(*    character;                                                           *)
(*  - a score is an exact rational [num, den] in lowest terms;             *)
(*  - `created` holds the value of new Date(created).getTime() in days.    *)
(***************************************************************************)
EXTENDS Integers, Sequences, FiniteSets, TLC

(***************************************************************************)
(* Bounds of the model                                                     *)
(***************************************************************************)
MaxLen == 3
MaxCount == 3
MaxPrice == 21

(***************************************************************************)
(* Optional values and JavaScript helpers                                  *)
(***************************************************************************)
None == <<>>
Some(v) == <<v>>
IsSome(o) == Len(o) > 0
OrElse(o, d) == IF Len(o) > 0 THEN o[1] ELSE d

Range(s) == {s[i] : i \in 1..Len(s)}

Min(a, b) == IF a < b THEN a ELSE b

Abs(x) == IF x < 0 THEN -x ELSE x

SelectIdx(s, Keep(_)) ==
  LET F[i \in 0..Len(s)] ==
        IF i = 0 THEN <<>>
        ELSE IF Keep(s[i]) THEN Append(F[i - 1], s[i]) ELSE F[i - 1]
  IN F[Len(s)]

slice(s, n) == SubSeq(s, 1, Min(n, Len(s)))

(***************************************************************************)
(* Input universe: a small catalogue of model records                      *)
(***************************************************************************)
Modality(out) == Some([input |-> <<"text">>, output |-> out])
Caps(tools) == Some([tools |-> tools])
Pricing(in, out) == Some([input |-> in, output |-> out])

Catalog ==
  << [id |-> "claude-opus-4.5", name |-> "Claude Opus 4.5", provider |-> "anthropic",
      contextWindow |-> Some(200000), pricing |-> Pricing(15, 75),
      modality |-> Modality(<<"text">>), capabilities |-> Caps(Some(TRUE)),
      created |-> Some(300)],
     [id |-> "claude-sonnet-4", name |-> "Claude Sonnet 4", provider |-> "anthropic",
      contextWindow |-> Some(200000), pricing |-> Pricing(3, 15),
      modality |-> Modality(<<"text">>), capabilities |-> Caps(Some(TRUE)),
      created |-> Some(200)],
     [id |-> "gpt-5-codex", name |-> "GPT-5 Codex", provider |-> "openai",
      contextWindow |-> Some(400000), pricing |-> Pricing(3, 10),
      modality |-> None, capabilities |-> Caps(Some(TRUE)),
      created |-> Some(300)],
     [id |-> "gpt-4o-mini", name |-> "GPT-4o Mini", provider |-> "openai",
      contextWindow |-> Some(128000), pricing |-> Pricing(1, 2),
      modality |-> Modality(<<"text">>), capabilities |-> Caps(Some(TRUE)),
      created |-> Some(100)],
     [id |-> "gpt-5-image-mini", name |-> "GPT-5 Image Mini", provider |-> "openai",
      contextWindow |-> Some(400000), pricing |-> Pricing(2, 8),
      modality |-> Modality(<<"image", "text">>), capabilities |-> Caps(Some(TRUE)),
      created |-> Some(300)],
     [id |-> "mistral-embed", name |-> "Mistral Embed", provider |-> "mistralai",
      contextWindow |-> None, pricing |-> None,
      modality |-> Modality(<<"embeddings">>), capabilities |-> None,
      created |-> None] >>

CatalogIds == {Catalog[i].id : i \in DOMAIN Catalog}

(***************************************************************************)
(* Strings                                                                 *)
(***************************************************************************)
UpperCase == "ABCDEFGHIJKLMNOPQRSTUVWXYZ"
LowerCase == "abcdefghijklmnopqrstuvwxyz"
Digits == "0123456789"

CharAt(s, i) == SubSeq(s, i, i)

IndexIn(alphabet, c) ==
  IF \E i \in 1..Len(alphabet) : CharAt(alphabet, i) = c
  THEN CHOOSE i \in 1..Len(alphabet) : CharAt(alphabet, i) = c
  ELSE 0

lowerChar(c) ==
  CASE c = "A" -> "a" [] c = "B" -> "b" [] c = "C" -> "c" [] c = "D" -> "d"
    [] c = "E" -> "e" [] c = "F" -> "f" [] c = "G" -> "g" [] c = "H" -> "h"
    [] c = "I" -> "i" [] c = "J" -> "j" [] c = "K" -> "k" [] c = "L" -> "l"
    [] c = "M" -> "m" [] c = "N" -> "n" [] c = "O" -> "o" [] c = "P" -> "p"
    [] c = "Q" -> "q" [] c = "R" -> "r" [] c = "S" -> "s" [] c = "T" -> "t"
    [] c = "U" -> "u" [] c = "V" -> "v" [] c = "W" -> "w" [] c = "X" -> "x"
    [] c = "Y" -> "y" [] c = "Z" -> "z"
    [] OTHER -> c

\* String.prototype.toLowerCase, character by character
toLowerCase(s) ==
  LET F[i \in 0..Len(s)] ==
        IF i = 0 THEN "" ELSE F[i - 1] \o lowerChar(CharAt(s, i))
  IN F[Len(s)]

includes(s, p) ==
  \E i \in 1..(Len(s) - Len(p) + 1) : SubSeq(s, i, i + Len(p) - 1) = p

isDigit(c) == IndexIn(Digits, c) > 0

digitValue(c) == IndexIn(Digits, c) - 1

parseInt(s) ==
  LET F[i \in 0..Len(s)] ==
        IF i = 0 THEN 0 ELSE 10 * F[i - 1] + digitValue(CharAt(s, i))
  IN F[Len(s)]

(***************************************************************************)
(* types.ts                                                                *)
(***************************************************************************)
Tier == [Efficient |-> "efficient", Standard |-> "standard", Flagship |-> "flagship"]

Cost == [Free |-> "free", Budget |-> "budget", Standard |-> "standard",
         Premium |-> "premium", Ultra |-> "ultra"]

TIER_ORDER == <<Tier.Efficient, Tier.Standard, Tier.Flagship>>

indexOf(s, v) ==
  IF \E i \in 1..Len(s) : s[i] = v
  THEN (CHOOSE i \in 1..Len(s) : s[i] = v /\ \A j \in 1..(i - 1) : s[j] # v) - 1
  ELSE -1

(***************************************************************************)
(* id.ts: extractVersion                                                   *)
(***************************************************************************)
SetMin(S) == CHOOSE x \in S : \A y \in S : x <= y
SetMax(S) == CHOOSE x \in S : \A y \in S : x >= y

AllDigits(s, i, j) == \A k \in i..j : isDigit(CharAt(s, k))

\* /(?<![x\d])(\d+)\.(\d+)(?!b)(?!x)/ : the triples <<i, j, k>> with the
\* major digits at i..j-1, the dot at j and the minor digits at j+1..k
dotMatches(s) ==
  LET n == Len(s)
      dots == {j \in 2..(n - 1) : CharAt(s, j) = "."}
      starts(j) == {i \in 1..(j - 1) :
                      /\ AllDigits(s, i, j - 1)
                      /\ (i > 1 => /\ CharAt(s, i - 1) # "x"
                                   /\ ~isDigit(CharAt(s, i - 1)))}
      ends(j) == {k \in (j + 1)..n :
                    /\ AllDigits(s, j + 1, k)
                    /\ (k < n => CharAt(s, k + 1) \notin {"b", "x"})}
  IN UNION {starts(j) \X {j} \X ends(j) : j \in dots}

\* leftmost start, then the longest minor group (greedy with backtracking)
dotMatch(s) ==
  LET M == dotMatches(s)
      i == SetMin({t[1] : t \in M})
      k == SetMax({t[3] : t \in {u \in M : u[1] = i}})
  IN CHOOSE t \in M : t[1] = i /\ t[3] = k

\* /-([1-9])(?![0-9.bx])/ : positions of the digit
singleMatches(s) ==
  {i \in 2..Len(s) :
     /\ CharAt(s, i - 1) = "-"
     /\ isDigit(CharAt(s, i)) /\ CharAt(s, i) # "0"
     /\ (i < Len(s) => /\ ~isDigit(CharAt(s, i + 1))
                       /\ CharAt(s, i + 1) \notin {".", "b", "x"})}

isWordChar(c) == IndexIn(LowerCase, c) > 0 \/ IndexIn(UpperCase, c) > 0 \/ isDigit(c) \/ c = "_"

\* /\bo([1-9])(?:-|$)/ : positions of the digit
oModelMatches(s) ==
  {i \in 2..Len(s) :
     /\ CharAt(s, i - 1) = "o"
     /\ (i > 2 => ~isWordChar(CharAt(s, i - 2)))
     /\ isDigit(CharAt(s, i)) /\ CharAt(s, i) # "0"
     /\ (i < Len(s) => CharAt(s, i + 1) = "-")}

extractVersionRegex(modelId) ==
  LET lower == toLowerCase(modelId)
      hasDot == dotMatches(lower) # {}
      dm == dotMatch(lower)
      major == parseInt(SubSeq(lower, dm[1], dm[2] - 1))
      minor == parseInt(SubSeq(lower, dm[2] + 1, dm[3]))
  IN IF hasDot /\ major >= 1 /\ major <= 9 THEN major * 100 + minor * 10
     ELSE IF singleMatches(lower) # {}
          THEN digitValue(CharAt(lower, SetMin(singleMatches(lower)))) * 100
     ELSE IF oModelMatches(lower) # {}
          THEN digitValue(CharAt(lower, SetMin(oModelMatches(lower)))) * 100
     ELSE 0

\* the same function, tabulated once for the ids of the catalogue
VersionTable == [s \in CatalogIds |-> extractVersionRegex(s)]

extractVersion(modelId) ==
  IF modelId \in CatalogIds THEN VersionTable[modelId] ELSE extractVersionRegex(modelId)

(***************************************************************************)
(* classify.ts                                                             *)
(***************************************************************************)
\* model.pricing?.input ?? 0
pricingInput(model) == IF IsSome(model.pricing) THEN model.pricing[1].input ELSE 0

\* model.pricing?.output ?? 0
pricingOutput(model) == IF IsSome(model.pricing) THEN model.pricing[1].output ELSE 0

\* model.contextWindow ?? 0
contextWindowOf(model) == OrElse(model.contextWindow, 0)

\* variant: the flagship test is made before the efficient test
classifyTier_FlagshipFirst(model) ==
  LET id == toLowerCase(model.id)
      name == toLowerCase(model.name)
      isEfficient ==
        \/ includes(id, "-mini")
        \/ includes(id, "-nano")
        \/ includes(id, "-lite")
        \/ includes(id, "-flash")
        \/ includes(id, "haiku")
        \/ includes(id, "tiny")
        \/ includes(id, "-small")
        \/ includes(name, " mini")
        \/ includes(name, " nano")
        \/ includes(name, " lite")
        \/ includes(name, " flash")
        \/ includes(name, "haiku")
        \/ includes(name, "tiny")
        \/ includes(name, " small")
      flagshipPatterns == <<"opus", "ultra">>
      isFlagshipByName ==
        \E k \in 1..Len(flagshipPatterns) :
          includes(id, flagshipPatterns[k]) \/ includes(name, flagshipPatterns[k])
      isProModel == includes(id, "-pro") \/ includes(name, " pro")
      isHighCost == pricingInput(model) >= 10
  IN IF isFlagshipByName \/ isProModel \/ isHighCost THEN Tier.Flagship
     ELSE IF isEfficient THEN Tier.Efficient
     ELSE Tier.Standard

classifyTier(model) ==
  LET id == toLowerCase(model.id)
      name == toLowerCase(model.name)
      isEfficient ==
        \/ includes(id, "-mini")
        \/ includes(id, "-nano")
        \/ includes(id, "-lite")
        \/ includes(id, "-flash")
        \/ includes(id, "haiku")
        \/ includes(id, "tiny")
        \/ includes(id, "-small")
        \/ includes(name, " mini")
        \/ includes(name, " nano")
        \/ includes(name, " lite")
        \/ includes(name, " flash")
        \/ includes(name, "haiku")
        \/ includes(name, "tiny")
        \/ includes(name, " small")
      flagshipPatterns == <<"opus", "ultra">>
      isFlagshipByName ==
        \E k \in 1..Len(flagshipPatterns) :
          includes(id, flagshipPatterns[k]) \/ includes(name, flagshipPatterns[k])
      isProModel == includes(id, "-pro") \/ includes(name, " pro")
      isHighCost == pricingInput(model) >= 10
  IN IF isEfficient THEN Tier.Efficient
     ELSE IF isFlagshipByName \/ isProModel \/ isHighCost THEN Tier.Flagship
     ELSE Tier.Standard

COST_ORDER == <<Cost.Free, Cost.Budget, Cost.Standard, Cost.Premium, Cost.Ultra>>

\* variant: the upper bound of each band is inclusive
classifyCostTier_InclusiveUpper(model) ==
  LET input == pricingInput(model)
      output == pricingOutput(model)
  IN IF input = 0 /\ output = 0 THEN Cost.Free
     ELSE IF input <= 2 THEN Cost.Budget
     ELSE IF input <= 10 THEN Cost.Standard
     ELSE IF input <= 20 THEN Cost.Premium
     ELSE Cost.Ultra

classifyCostTier(model) ==
  LET input == pricingInput(model)
      output == pricingOutput(model)
  IN IF input = 0 /\ output = 0 THEN Cost.Free
     ELSE IF input < 2 THEN Cost.Budget
     ELSE IF input < 10 THEN Cost.Standard
     ELSE IF input < 20 THEN Cost.Premium
     ELSE Cost.Ultra

\* variant: only the excluded modalities are tested
isTextFocused_MediaOnly(model) ==
  IF ~IsSome(model.modality) THEN TRUE
  ELSE LET outputs == model.modality[1].output
           excluded == {"image", "audio", "video"}
       IN ~\E k \in 1..Len(outputs) : outputs[k] \in excluded

\* model.modality?.output, then the text-focus test
isTextFocused(model) ==
  IF ~IsSome(model.modality) THEN TRUE
  ELSE LET outputs == model.modality[1].output
           excluded == {"image", "audio", "video"}
       IN /\ "text" \in Range(outputs)
          /\ ~\E k \in 1..Len(outputs) : outputs[k] \in excluded

\* model.capabilities?.tools === true
supportsTools(model) ==
  IsSome(model.capabilities) /\ model.capabilities[1].tools = Some(TRUE)

\* m.capabilities?.tools, as a truth value
capabilitiesTools(model) ==
  IF IsSome(model.capabilities) THEN OrElse(model.capabilities[1].tools, FALSE) ELSE FALSE

(***************************************************************************)
(* Exact rational arithmetic for scores (JavaScript numbers, without       *)
(* rounding).  NaN is the pair with denominator 0.                         *)
(***************************************************************************)
RECURSIVE GCD(_, _)
GCD(a, b) == IF b = 0 THEN a ELSE GCD(b, a % b)

NaN == [num |-> 0, den |-> 0]

Rat(n, d) ==
  IF d = 0 THEN NaN
  ELSE LET g == GCD(Abs(n), Abs(d))
           sgn == IF d < 0 THEN -1 ELSE 1
       IN [num |-> sgn * (n \div g), den |-> sgn * (d \div g)]

Zero == [num |-> 0, den |-> 1]
One == [num |-> 1, den |-> 1]

isNaN(a) == a.den = 0

RAdd(a, b) ==
  IF isNaN(a) \/ isNaN(b) THEN NaN ELSE Rat(a.num * b.den + b.num * a.den, a.den * b.den)

RSub(a, b) ==
  IF isNaN(a) \/ isNaN(b) THEN NaN ELSE Rat(a.num * b.den - b.num * a.den, a.den * b.den)

RMul(a, b) ==
  IF isNaN(a) \/ isNaN(b) THEN NaN ELSE Rat(a.num * b.num, a.den * b.den)

\* a / b for b # 0
RDiv(a, b) ==
  IF isNaN(a) \/ isNaN(b) THEN NaN ELSE Rat(a.num * b.den, a.den * b.num)

\* a < b, a <= b; every comparison with NaN is false
RLess(a, b) == ~isNaN(a) /\ ~isNaN(b) /\ a.num * b.den < b.num * a.den
RLeq(a, b) == ~isNaN(a) /\ ~isNaN(b) /\ a.num * b.den <= b.num * a.den

(***************************************************************************)
(* score.ts                                                                *)
(***************************************************************************)
\* stands for the IEEE infinity: larger than every value of the model
Infinity == 1000000000

minMax(value, min, max) ==
  IF max = min THEN Zero
  ELSE IF min = Infinity \/ max = -Infinity THEN NaN
  ELSE Rat(value - min, max - min)

range(values) ==
  LET F[i \in 0..Len(values)] ==
        IF i = 0 THEN [min |-> Infinity, max |-> -Infinity]
        ELSE LET acc == F[i - 1]
             IN [min |-> IF values[i] < acc.min THEN values[i] ELSE acc.min,
                 max |-> IF values[i] > acc.max THEN values[i] ELSE acc.max]
  IN F[Len(values)]

\* variant: the normalized price is returned without the inversion
costEfficiency_NotInverted(model, allModels) ==
  LET prices == [i \in 1..Len(allModels) |-> pricingInput(allModels[i])]
      r == range(prices)
  IN minMax(pricingInput(model), r.min, r.max)

costEfficiency(model, allModels) ==
  LET prices == [i \in 1..Len(allModels) |-> pricingInput(allModels[i])]
      r == range(prices)
      price == pricingInput(model)
      normalized == minMax(price, r.min, r.max)
  IN IF normalized = Zero /\ r.min = r.max THEN Zero
     ELSE RSub(One, normalized)

contextCapacity(model, allModels) ==
  LET sizes == [i \in 1..Len(allModels) |-> contextWindowOf(allModels[i])]
      r == range(sizes)
  IN minMax(contextWindowOf(model), r.min, r.max)

\* m.created ? new Date(m.created).getTime() : 0
createdTime(model) == OrElse(model.created, 0)

recency(model, allModels) ==
  LET timestamps == [i \in 1..Len(allModels) |-> createdTime(allModels[i])]
      r == range(timestamps)
  IN minMax(createdTime(model), r.min, r.max)

versionFreshness(model, allModels) ==
  LET versions == [i \in 1..Len(allModels) |-> extractVersion(allModels[i].id)]
      r == range(versions)
  IN minMax(extractVersion(model.id), r.min, r.max)

tierFit(targetTier, model) ==
  LET targetIdx == indexOf(TIER_ORDER, targetTier)
      modelIdx == indexOf(TIER_ORDER, classifyTier(model))
      distance == Abs(targetIdx - modelIdx)
  IN IF distance = 0 THEN One
     ELSE IF distance = 1 THEN Rat(1, 2)
     ELSE Rat(1, 10)

\* a criterion value is [fn |-> name] or [fn |-> "tierFit", target |-> tier];
\* a weighted criterion is [criterion |-> c, weight |-> w] with w a rational
applyCriterion(criterion, model, allModels) ==
  CASE criterion.fn = "costEfficiency" -> costEfficiency(model, allModels)
    [] criterion.fn = "contextCapacity" -> contextCapacity(model, allModels)
    [] criterion.fn = "recency" -> recency(model, allModels)
    [] criterion.fn = "versionFreshness" -> versionFreshness(model, allModels)
    [] criterion.fn = "tierFit" -> tierFit(criterion.target, model)

\* variant: the weights are averaged over the number of criteria
totalWeightOf_Count(criteria) == Rat(Len(criteria), 1)

\* criteria.reduce((sum, c) => sum + c.weight, 0)
totalWeightOf(criteria) ==
  LET F[i \in 0..Len(criteria)] ==
        IF i = 0 THEN Zero ELSE RAdd(F[i - 1], criteria[i].weight)
  IN F[Len(criteria)]

\* variant: the weights are used as given, not divided by their total
scoreOf_Unnormalised(model, models, criteria) ==
  LET totalWeight == totalWeightOf(criteria)
      F[i \in 0..Len(criteria)] ==
        IF i = 0 THEN Zero
        ELSE RAdd(F[i - 1],
                  RMul(criteria[i].weight,
                       applyCriterion(criteria[i].criterion, model, models)))
  IN IF RLess(Zero, totalWeight) THEN F[Len(criteria)] ELSE Zero

\* variant: the weighted sum is computed without the totalWeight > 0 test
scoreOf_NoZeroGuard(model, models, criteria) ==
  LET totalWeight == totalWeightOf(criteria)
      F[i \in 0..Len(criteria)] ==
        IF i = 0 THEN Zero
        ELSE RAdd(F[i - 1],
                  RMul(RDiv(criteria[i].weight, totalWeight),
                       applyCriterion(criteria[i].criterion, model, models)))
  IN F[Len(criteria)]

\* the body of the map callback of scoreModels
scoreOf(model, models, criteria) ==
  LET totalWeight == totalWeightOf(criteria)
      F[i \in 0..Len(criteria)] ==
        IF i = 0 THEN Zero
        ELSE RAdd(F[i - 1],
                  RMul(RDiv(criteria[i].weight, totalWeight),
                       applyCriterion(criteria[i].criterion, model, models)))
  IN IF RLess(Zero, totalWeight) THEN F[Len(criteria)] ELSE Zero

\* { ...model, score }
withScore(model, score) ==
  [f \in DOMAIN model \cup {"score"} |-> IF f = "score" THEN score ELSE model[f]]

\* a scored record without its score: the input record it was made from
unscored(m) == [f \in DOMAIN m \ {"score"} |-> m[f]]

\* variant: a record also goes before the records it ties with
sortsBefore_TiesFirst(b, a) == RLeq(a.score, b.score)

\* the comparator (a, b) => b.score - a.score is positive: b goes before a
sortsBefore(b, a) == RLess(a.score, b.score)

\* Array.prototype.sort is stable: an element is placed after every element
\* the comparator does not put behind it
insertSorted(sorted, m) ==
  LET ahead == {i \in 0..Len(sorted) : \A j \in (i + 1)..Len(sorted) : sortsBefore(m, sorted[j])}
      pos == SetMin(ahead)
  IN SubSeq(sorted, 1, pos) \o <<m>> \o SubSeq(sorted, pos + 1, Len(sorted))

sortByScore(list) ==
  LET F[i \in 0..Len(list)] ==
        IF i = 0 THEN <<>> ELSE insertSorted(F[i - 1], list[i])
  IN F[Len(list)]

\* models.map((model) => ({ ...model, score }))
scoreAll(models, criteria) ==
  [i \in 1..Len(models) |-> withScore(models[i], scoreOf(models[i], models, criteria))]

\* variant: the scored list is returned without the sort
scoreModels_NoSort(models, criteria) ==
  IF Len(models) = 0 THEN <<>>
  ELSE scoreAll(models, criteria)

scoreModels(models, criteria) ==
  IF Len(models) = 0 THEN <<>>
  ELSE sortByScore(scoreAll(models, criteria))

(***************************************************************************)
(* select.ts: constraints                                                  *)
(***************************************************************************)
\* a constraint value is [fn |-> "providerDiversity", maxPerProvider |-> n]
\* or [fn |-> "minContextWindow", tokens |-> n]
providerDiversity(maxPerProvider) ==
  [fn |-> "providerDiversity", maxPerProvider |-> maxPerProvider]

minContextWindow(tokens) == [fn |-> "minContextWindow", tokens |-> tokens]

\* variant: the provider count is compared with <=
providerDiversityTest_AtMost(maxPerProvider, selected, candidate) ==
  LET count == Cardinality({i \in 1..Len(selected) : selected[i].provider = candidate.provider})
  IN count <= maxPerProvider

providerDiversityTest(maxPerProvider, selected, candidate) ==
  LET count == Cardinality({i \in 1..Len(selected) : selected[i].provider = candidate.provider})
  IN count < maxPerProvider

minContextWindowTest(tokens, selected, candidate) ==
  contextWindowOf(candidate) >= tokens

applyConstraint(c, selected, candidate) ==
  CASE c.fn = "providerDiversity" -> providerDiversityTest(c.maxPerProvider, selected, candidate)
    [] c.fn = "minContextWindow" -> minContextWindowTest(c.tokens, selected, candidate)

\* constraints.every((c) => c(selected, candidate))
passesAll(constraints, selected, candidate) ==
  \A k \in 1..Len(constraints) : applyConstraint(constraints[k], selected, candidate)

(***************************************************************************)
(* purpose.ts: profiles and the helpers of recommend                       *)
(***************************************************************************)
\* a profile is [preferredTier, weights, require, exclude]; require (optional)
\* is [tools, minContext], exclude (optional) is [tiers, patterns], each
\* field optional
Weights(c, q, x) == [cost |-> Rat(c, 10), quality |-> Rat(q, 10), context |-> Rat(x, 10)]

purposes ==
  [cheap |->
     [preferredTier |-> Tier.Efficient, weights |-> Weights(6, 2, 2),
      require |-> None, exclude |-> None],
   balanced |->
     [preferredTier |-> Tier.Standard, weights |-> Weights(3, 4, 3),
      require |-> None, exclude |-> None],
   quality |->
     [preferredTier |-> Tier.Flagship, weights |-> Weights(1, 7, 2),
      require |-> None, exclude |-> None],
   coding |->
     [preferredTier |-> Tier.Standard, weights |-> Weights(2, 5, 3),
      require |-> Some([tools |-> Some(TRUE), minContext |-> None]),
      exclude |-> None],
   creative |->
     [preferredTier |-> Tier.Flagship, weights |-> Weights(1, 7, 2),
      require |-> None, exclude |-> None],
   reviewer |->
     [preferredTier |-> Tier.Standard, weights |-> Weights(2, 5, 3),
      require |-> Some([tools |-> Some(TRUE), minContext |-> Some(8000)]),
      exclude |-> Some([tiers |-> Some(<<Tier.Efficient>>),
                        patterns |-> Some(<<"code", "coder", "codex", "vision", "-vl", "omni">>)])]]

\* typeof purpose === "string" ? purposes[purpose] : purpose; the result is
\* undefined (None) for a name that is not a key of the registry
resolveProfile(purpose) ==
  IF purpose.kind = "name"
  THEN IF purpose.name \in DOMAIN purposes THEN Some(purposes[purpose.name]) ELSE None
  ELSE Some(purpose.profile)

tierDistance(a, b) == Abs(indexOf(TIER_ORDER, a) - indexOf(TIER_ORDER, b))

requireTools(profile) ==
  IF IsSome(profile.require) THEN OrElse(profile.require[1].tools, FALSE) ELSE FALSE

requireMinContext(profile) ==
  IF IsSome(profile.require) THEN profile.require[1].minContext ELSE None

excludeTiers(profile) ==
  IF IsSome(profile.exclude) THEN profile.exclude[1].tiers ELSE None

excludePatterns(profile) ==
  IF IsSome(profile.exclude) THEN profile.exclude[1].patterns ELSE None

\* variant: the minimum-context rule compares with the wrong sign
filterKeeps_MinContextInverted(m, profile, textOnly) ==
  IF textOnly /\ ~isTextFocused(m) THEN FALSE
  ELSE IF requireTools(profile) /\ ~capabilitiesTools(m) THEN FALSE
  ELSE IF /\ IsSome(requireMinContext(profile))
          /\ requireMinContext(profile)[1] # 0
          /\ contextWindowOf(m) > requireMinContext(profile)[1] THEN FALSE
  ELSE IF /\ IsSome(excludeTiers(profile))
          /\ \E k \in 1..Len(excludeTiers(profile)[1]) :
                excludeTiers(profile)[1][k] = classifyTier(m) THEN FALSE
  ELSE IF /\ IsSome(excludePatterns(profile))
          /\ \E k \in 1..Len(excludePatterns(profile)[1]) :
                LET p == toLowerCase(excludePatterns(profile)[1][k])
                IN includes(toLowerCase(m.id), p) \/ includes(toLowerCase(m.name), p)
       THEN FALSE
  ELSE TRUE

\* the callback of models.filter in applyFilters, for a defined profile
filterKeeps(m, profile, textOnly) ==
  IF textOnly /\ ~isTextFocused(m) THEN FALSE
  ELSE IF requireTools(profile) /\ ~capabilitiesTools(m) THEN FALSE
  ELSE IF /\ IsSome(requireMinContext(profile))
          /\ requireMinContext(profile)[1] # 0
          /\ contextWindowOf(m) < requireMinContext(profile)[1] THEN FALSE
  ELSE IF /\ IsSome(excludeTiers(profile))
          /\ \E k \in 1..Len(excludeTiers(profile)[1]) :
                excludeTiers(profile)[1][k] = classifyTier(m) THEN FALSE
  ELSE IF /\ IsSome(excludePatterns(profile))
          /\ \E k \in 1..Len(excludePatterns(profile)[1]) :
                LET p == toLowerCase(excludePatterns(profile)[1][k])
                IN includes(toLowerCase(m.id), p) \/ includes(toLowerCase(m.name), p)
       THEN FALSE
  ELSE TRUE

\* with an undefined profile the callback throws a TypeError at
\* profile.require for the first record that gets past the text-focus test
applyFiltersThrows(models, profileOpt, textOnly) ==
  /\ ~IsSome(profileOpt)
  /\ \E i \in 1..Len(models) : ~(textOnly /\ ~isTextFocused(models[i]))

applyFilters(models, profileOpt, textOnly) ==
  LET Keep(m) == IF IsSome(profileOpt) THEN filterKeeps(m, profileOpt[1], textOnly) ELSE FALSE
  IN SelectIdx(models, Keep)

buildCriteria(profile) ==
  LET half == RDiv(profile.weights.quality, Rat(2, 1))
  IN (IF RLess(Zero, profile.weights.cost)
      THEN <<[criterion |-> [fn |-> "costEfficiency"], weight |-> profile.weights.cost]>>
      ELSE <<>>)
     \o
     (IF RLess(Zero, profile.weights.quality)
      THEN <<[criterion |-> [fn |-> "versionFreshness"], weight |-> half],
             [criterion |-> [fn |-> "recency"], weight |-> half]>>
      ELSE <<>>)
     \o
     (IF RLess(Zero, profile.weights.context)
      THEN <<[criterion |-> [fn |-> "contextCapacity"], weight |-> profile.weights.context]>>
      ELSE <<>>)

\* variant: buckets by the record's own tier index instead of the distance
groupByTierDistance_ByTierIndex(scored, preferredTier) ==
  LET F[i \in 0..Len(scored)] ==
        IF i = 0 THEN <<<<>>, <<>>, <<>>>>
        ELSE LET d == indexOf(TIER_ORDER, classifyTier(scored[i]))
             IN [F[i - 1] EXCEPT ![d + 1] = Append(@, scored[i])]
  IN F[Len(scored)]

\* groups[d] is the bucket of distance d: the sequence index is d + 1
groupByTierDistance(scored, preferredTier) ==
  LET F[i \in 0..Len(scored)] ==
        IF i = 0 THEN <<<<>>, <<>>, <<>>>>
        ELSE LET d == tierDistance(classifyTier(scored[i]), preferredTier)
             IN [F[i - 1] EXCEPT ![d + 1] = Append(@, scored[i])]
  IN F[Len(scored)]

\* variant: the constraints see only the records admitted from this bucket
groupFirstPass_BucketOnly(result, group, remaining, constraints) ==
  LET F[i \in 0..Len(group)] ==
        IF i = 0 THEN [firstPass |-> <<>>, skipped |-> <<>>]
        ELSE LET acc == F[i - 1]
             IN IF Len(acc.firstPass) >= remaining THEN acc
                ELSE IF passesAll(constraints, acc.firstPass, group[i])
                     THEN [firstPass |-> Append(acc.firstPass, group[i]),
                           skipped |-> acc.skipped]
                     ELSE [firstPass |-> acc.firstPass,
                           skipped |-> Append(acc.skipped, group[i])]
  IN F[Len(group)]

\* the first loop of the constrained branch of selectFromTierGroups: the
\* pair of lists after examining group[1..i]
groupFirstPass(result, group, remaining, constraints) ==
  LET F[i \in 0..Len(group)] ==
        IF i = 0 THEN [firstPass |-> <<>>, skipped |-> <<>>]
        ELSE LET acc == F[i - 1]
             IN IF Len(acc.firstPass) >= remaining THEN acc
                ELSE IF passesAll(constraints, result \o acc.firstPass, group[i])
                     THEN [firstPass |-> Append(acc.firstPass, group[i]),
                           skipped |-> acc.skipped]
                     ELSE [firstPass |-> acc.firstPass,
                           skipped |-> Append(acc.skipped, group[i])]
  IN F[Len(group)]

\* variant: the second loop stops one record short
groupSecondPass_StopsOneShort(firstPass, skipped, remaining) ==
  LET F[i \in 0..Len(skipped)] ==
        IF i = 0 THEN firstPass
        ELSE LET acc == F[i - 1]
             IN IF Len(acc) >= remaining - 1 THEN acc ELSE Append(acc, skipped[i])
  IN F[Len(skipped)]

\* the second loop: fill from skipped
groupSecondPass(firstPass, skipped, remaining) ==
  LET F[i \in 0..Len(skipped)] ==
        IF i = 0 THEN firstPass
        ELSE LET acc == F[i - 1]
             IN IF Len(acc) >= remaining THEN acc ELSE Append(acc, skipped[i])
  IN F[Len(skipped)]

\* variant: the constrained branch without its second pass
selectFromGroup_FirstPassOnly(result, group, count, constraints) ==
  LET remaining == count - Len(result)
  IN IF Len(constraints) = 0 THEN slice(group, remaining)
     ELSE groupFirstPass(result, group, remaining, constraints).firstPass

\* one iteration of the for loop of selectFromTierGroups on a non-empty
\* group, with result.length < count: the list pushed onto result
selectFromGroup(result, group, count, constraints) ==
  LET remaining == count - Len(result)
  IN IF Len(constraints) = 0 THEN slice(group, remaining)
     ELSE LET fp == groupFirstPass(result, group, remaining, constraints)
          IN groupSecondPass(fp.firstPass, fp.skipped, remaining)

(***************************************************************************)
(* Input universe: argument sets of recommend                              *)
(***************************************************************************)
Reverse(s) == [i \in 1..Len(s) |-> s[Len(s) + 1 - i]]

\* the sub-lists of list with at most n records, in the order of list
SubLists(list, n) ==
  LET Pick(S) == SelectIdx([i \in 1..Len(list) |-> i], LAMBDA i : i \in S)
  IN {[i \in 1..Len(Pick(S)) |-> list[Pick(S)[i]]] :
        S \in {T \in SUBSET (1..Len(list)) : Cardinality(T) <= n}}

\* the catalogue in an order that follows neither tier nor price
CallerOrder == <<Catalog[2], Catalog[4], Catalog[6], Catalog[1], Catalog[5], Catalog[3]>>

\* the model lists: at most n distinct catalogue records, in the caller's order
ListsUpTo(n) == SubLists(CallerOrder, n)

CustomProfiles ==
  { [preferredTier |-> Tier.Efficient, weights |-> Weights(10, 0, 0),
     require |-> None, exclude |-> None],
    [preferredTier |-> Tier.Flagship, weights |-> Weights(0, 0, 0),
     require |-> Some([tools |-> None, minContext |-> Some(200000)]),
     exclude |-> Some([tiers |-> Some(<<Tier.Standard>>), patterns |-> None])],
    [preferredTier |-> Tier.Standard, weights |-> Weights(-5, 10, 5),
     require |-> None, exclude |-> None] }

PurposeNames == {"cheap", "balanced", "quality", "coding", "reviewer", "unknown"}

Purposes ==
  {[kind |-> "name", name |-> n] : n \in PurposeNames}
    \cup {[kind |-> "profile", profile |-> p] : p \in CustomProfiles}

Counts == {None} \cup {Some(n) : n \in 0..MaxCount}

OptBool == {None, Some(TRUE), Some(FALSE)}

\* textOnly: omitted (the default, true) or false
TextOnlyChoices == {None, Some(FALSE)}

RecommendOptions == [count : Counts, providerDiversity : OptBool, textOnly : TextOnlyChoices]

(***************************************************************************)
(* Input universe: argument sets of selectModels                           *)
(***************************************************************************)
\* the catalogue as a scored list, sorted by score descending with one tie
CatalogScores == <<Rat(19, 20), Rat(17, 20), Rat(4, 5), Rat(2, 5), Rat(2, 5), Zero>>

ScoredCatalog == [i \in DOMAIN Catalog |-> withScore(Catalog[i], CatalogScores[i])]

ScoredLists == SubLists(ScoredCatalog, MaxLen) \cup SubLists(Reverse(ScoredCatalog), MaxLen)

ConstraintLists ==
  { <<>>,
    <<providerDiversity(1)>>,
    <<providerDiversity(2)>>,
    <<minContextWindow(200000)>>,
    <<providerDiversity(1), minContextWindow(200000)>> }

\* a filter value names a predicate over models
Filters ==
  { [fn |-> "supportsTools"],
    [fn |-> "providerIsNot", provider |-> "anthropic"],
    [fn |-> "minContext", tokens |-> 200000],
    [fn |-> "never"] }

applyFilter(f, m) ==
  CASE f.fn = "supportsTools" -> supportsTools(m)
    [] f.fn = "providerIsNot" -> m.provider # f.provider
    [] f.fn = "minContext" -> contextWindowOf(m) >= f.tokens
    [] f.fn = "never" -> FALSE

SelectionOptions ==
  [count : Counts, constraints : ConstraintLists, filter : {None} \cup {Some(f) : f \in Filters}]

(***************************************************************************)
(* Input universe: argument sets of scoreModels                            *)
(***************************************************************************)
\* the lists of at most n distinct catalogue records, in every order
OrderedLists(n) ==
  LET Idx == UNION {[1..k -> DOMAIN Catalog] : k \in 0..n}
  IN {[i \in DOMAIN f |-> Catalog[f[i]]] :
        f \in {h \in Idx : \A i, j \in DOMAIN h : i # j => h[i] # h[j]}}

W(fn, n, d) == [criterion |-> [fn |-> fn], weight |-> Rat(n, d)]

CriteriaLists ==
  { <<>>,
    <<W("costEfficiency", 1, 1)>>,
    <<W("costEfficiency", 0, 1), W("recency", 0, 1)>>,
    <<W("costEfficiency", 2, 1), W("contextCapacity", 8, 1)>>,
    <<W("costEfficiency", 2, 10), W("contextCapacity", 8, 10)>>,
    <<W("versionFreshness", 1, 1), W("recency", 1, 1)>>,
    <<[criterion |-> [fn |-> "tierFit", target |-> Tier.Standard], weight |-> Rat(1, 1)]>>,
    <<[criterion |-> [fn |-> "tierFit", target |-> Tier.Flagship], weight |-> Rat(3, 1)],
      W("costEfficiency", 1, 1)>>,
    <<W("costEfficiency", -1, 1), W("recency", 2, 1)>> }

(***************************************************************************)
(* State: one call of recommend, selectModels or scoreModels               *)
(***************************************************************************)
VARIABLES
  pc,          \* position in the running call
  ret,         \* the returned list
  models,      \* recommend, scoreModels: argument, the caller's model list
  purpose,     \* recommend: argument, a purpose name or a profile
  options,     \* recommend: argument, RecommendOptions
  groups,      \* recommend: the three tier-distance buckets of the scored list
  constraints, \* recommend: the constraint list
  g,           \* selectFromTierGroups: index of the next bucket
  result,      \* selectFromTierGroups: the result so far
  scored,      \* selectModels: argument, the scored list
  selOptions,  \* selectModels: argument, SelectionOptions
  candidates,  \* selectModels: the filtered list
  selected,    \* selectModels: the records selected so far
  usedInFirstPass, \* selectModels: candidate indices admitted by the first pass
  i1,          \* selectModels: loop variable of the first pass
  i2,          \* selectModels: loop variable of the second pass
  criteria,    \* scoreModels: argument, the weighted criteria
  mapped,      \* scoreModels: the scored list before the sort
  subject,     \* criterion, classifier: argument, the model record
  criterion,   \* criterion: the built-in criterion that is called
  outcome      \* criterion, classifier: the returned value

recArgs == <<models, purpose, options>>
recLocals == <<groups, constraints, g, result>>
selArgs == <<scored, selOptions>>
selLocals == <<candidates, selected, usedInFirstPass, i1, i2>>
scoVars == <<criteria, mapped>>
fnVars == <<subject, criterion, outcome>>

vars == <<pc, ret, recArgs, recLocals, selArgs, selLocals, scoVars, fnVars>>

RecIdle ==
  /\ purpose = [kind |-> "name", name |-> "balanced"]
  /\ options = [count |-> None, providerDiversity |-> None, textOnly |-> None]
  /\ groups = <<>> /\ constraints = <<>> /\ g = 0 /\ result = <<>>

SelIdle ==
  /\ scored = <<>>
  /\ selOptions = [count |-> None, constraints |-> <<>>, filter |-> None]
  /\ candidates = <<>> /\ selected = <<>> /\ usedInFirstPass = {}
  /\ i1 = 0 /\ i2 = 0

ScoIdle == criteria = <<>> /\ mapped = <<>>

FnIdle == subject = <<>> /\ criterion = <<>> /\ outcome = <<>>

(***************************************************************************)
(* recommend                                                               *)
(***************************************************************************)
\* variant: provider diversity is on unless it is switched off
useDiversityOf_DefaultTrue(opts) == OrElse(opts.providerDiversity, TRUE)

\* const { count = 1, providerDiversity: useDiversity = false, textOnly = true } = options
countOf(opts) == OrElse(opts.count, 1)
useDiversityOf(opts) == OrElse(opts.providerDiversity, FALSE)
textOnlyOf(opts) == OrElse(opts.textOnly, TRUE)

profileOf(p) == resolveProfile(p)[1]

\* const filtered = applyFilters(models, profile, textOnly)
filteredOf(ms, p, opts) == applyFilters(ms, resolveProfile(p), textOnlyOf(opts))

\* variant: the filtered records are scored against the whole input list
scoredOf_AllModels(ms, p, opts) ==
  LET filtered == filteredOf(ms, p, opts)
  IN sortByScore([i \in 1..Len(filtered) |->
                    withScore(filtered[i],
                              scoreOf(filtered[i], ms, buildCriteria(profileOf(p))))])

\* const scored = scoreModels(filtered, buildCriteria(profile))
scoredOf(ms, p, opts) == scoreModels(filteredOf(ms, p, opts), buildCriteria(profileOf(p)))

\* variant: the diversity constraint is switched on from count 3
constraintsOf_FromThree(opts) ==
  IF countOf(opts) > 2 /\ useDiversityOf(opts) THEN <<providerDiversity(1)>> ELSE <<>>

\* const constraints = count > 1 && useDiversity ? [providerDiversity()] : []
constraintsOf(opts) ==
  IF countOf(opts) > 1 /\ useDiversityOf(opts) THEN <<providerDiversity(1)>> ELSE <<>>

Init ==
  /\ pc = "recommend"
  /\ ret = <<>>
  /\ models \in ListsUpTo(MaxLen)
  /\ purpose \in Purposes
  /\ options \in RecommendOptions
  /\ groups = <<>> /\ constraints = <<>> /\ g = 0 /\ result = <<>>
  /\ SelIdle
  /\ ScoIdle
  /\ FnIdle

\* recommend, lines 203-211: profile resolution throws inside applyFilters
RecommendThrows ==
  /\ pc = "recommend"
  /\ applyFiltersThrows(models, resolveProfile(purpose), textOnlyOf(options))
  /\ pc' = "threw"
  /\ UNCHANGED <<ret, recArgs, recLocals, selArgs, selLocals, scoVars, fnVars>>

\* recommend, lines 203-211: nothing passes the filters
RecommendEmpty ==
  /\ pc = "recommend"
  /\ ~applyFiltersThrows(models, resolveProfile(purpose), textOnlyOf(options))
  /\ Len(filteredOf(models, purpose, options)) = 0
  /\ ret' = <<>>
  /\ pc' = "done"
  /\ UNCHANGED <<recArgs, recLocals, selArgs, selLocals, scoVars, fnVars>>

\* recommend, lines 203-226, up to the call of selectFromTierGroups
RecommendScore ==
  /\ pc = "recommend"
  /\ ~applyFiltersThrows(models, resolveProfile(purpose), textOnlyOf(options))
  /\ Len(filteredOf(models, purpose, options)) # 0
  /\ groups' = groupByTierDistance(scoredOf(models, purpose, options),
                                   profileOf(purpose).preferredTier)
  /\ constraints' = constraintsOf(options)
  /\ result' = <<>>
  /\ g' = 1
  /\ pc' = "selectFromTierGroups"
  /\ UNCHANGED <<ret, recArgs, selArgs, selLocals, scoVars, fnVars>>

\* selectFromTierGroups: one iteration of the for loop
SelectGroup ==
  /\ pc = "selectFromTierGroups"
  /\ g <= Len(groups)
  /\ Len(result) < countOf(options)
  /\ result' = IF Len(groups[g]) = 0 THEN result
               ELSE result \o selectFromGroup(result, groups[g], countOf(options), constraints)
  /\ g' = g + 1
  /\ UNCHANGED <<pc, ret, recArgs, groups, constraints, selArgs, selLocals, scoVars, fnVars>>

\* selectFromTierGroups: loop exit (break or exhaustion) and the final slice
SelectReturn ==
  /\ pc = "selectFromTierGroups"
  /\ (g > Len(groups) \/ Len(result) >= countOf(options))
  /\ ret' = slice(result, countOf(options))
  /\ pc' = "done"
  /\ UNCHANGED <<recArgs, recLocals, selArgs, selLocals, scoVars, fnVars>>

Next ==
  \/ RecommendThrows
  \/ RecommendEmpty
  \/ RecommendScore
  \/ SelectGroup
  \/ SelectReturn

Spec == Init /\ [][Next]_vars

\* selectFromTierGroups as a function of its arguments: the result after the
\* for loop over the groups, and the final slice
selectFromTierGroups(tiered, count, cs) ==
  LET F[k \in 0..Len(tiered)] ==
        IF k = 0 THEN <<>>
        ELSE LET acc == F[k - 1]
             IN IF Len(acc) >= count \/ Len(tiered[k]) = 0 THEN acc
                ELSE acc \o selectFromGroup(acc, tiered[k], count, cs)
  IN slice(F[Len(tiered)], count)

\* recommend as a function of its arguments, for a purpose that resolves
recommendOf(ms, p, opts) ==
  IF Len(filteredOf(ms, p, opts)) = 0 THEN <<>>
  ELSE selectFromTierGroups(
         groupByTierDistance(scoredOf(ms, p, opts), profileOf(p).preferredTier),
         countOf(opts), constraintsOf(opts))


(***************************************************************************)
(* selectModels                                                            *)
(***************************************************************************)
\* const { count = 1, constraints = [], filter } = options
selCount == OrElse(selOptions.count, 1)

\* filter ? scored.filter(filter) : scored
candidatesOf(list, opts) ==
  IF IsSome(opts.filter)
  THEN SelectIdx(list, LAMBDA m : applyFilter(opts.filter[1], m))
  ELSE list

InitSelect ==
  /\ pc = "selectModels"
  /\ ret = <<>>
  /\ scored \in ScoredLists
  /\ selOptions \in SelectionOptions
  /\ candidates = <<>> /\ selected = <<>> /\ usedInFirstPass = {}
  /\ i1 = 0 /\ i2 = 0
  /\ models = <<>>
  /\ RecIdle
  /\ ScoIdle
  /\ FnIdle

\* lines 55-60: the pre-filter leaves no candidate
SelectModelsEmpty ==
  /\ pc = "selectModels"
  /\ Len(candidatesOf(scored, selOptions)) = 0
  /\ candidates' = <<>>
  /\ ret' = <<>>
  /\ pc' = "returned"
  /\ UNCHANGED <<recArgs, recLocals, selArgs, selected, usedInFirstPass, i1, i2, scoVars, fnVars>>

\* lines 55-63: the pre-filter leaves candidates
SelectModelsBegin ==
  /\ pc = "selectModels"
  /\ Len(candidatesOf(scored, selOptions)) # 0
  /\ candidates' = candidatesOf(scored, selOptions)
  /\ selected' = <<>>
  /\ usedInFirstPass' = {}
  /\ i1' = 0
  /\ pc' = "firstPass"
  /\ UNCHANGED <<ret, recArgs, recLocals, selArgs, i2, scoVars, fnVars>>

\* variant: the first pass puts an admitted candidate at the front
FirstPassStep_Unshift ==
  /\ pc = "firstPass"
  /\ i1 < Len(candidates) /\ Len(selected) < selCount
  /\ LET candidate == candidates[i1 + 1]
     IN IF passesAll(selOptions.constraints, selected, candidate)
        THEN /\ selected' = <<candidate>> \o selected
             /\ usedInFirstPass' = usedInFirstPass \cup {i1}
        ELSE UNCHANGED <<selected, usedInFirstPass>>
  /\ i1' = i1 + 1
  /\ UNCHANGED <<pc, ret, recArgs, recLocals, selArgs, candidates, i2, scoVars, fnVars>>

\* lines 66-73: one iteration of the first pass
FirstPassStep ==
  /\ pc = "firstPass"
  /\ i1 < Len(candidates) /\ Len(selected) < selCount
  /\ LET candidate == candidates[i1 + 1]
     IN IF passesAll(selOptions.constraints, selected, candidate)
        THEN /\ selected' = Append(selected, candidate)
             /\ usedInFirstPass' = usedInFirstPass \cup {i1}
        ELSE UNCHANGED <<selected, usedInFirstPass>>
  /\ i1' = i1 + 1
  /\ UNCHANGED <<pc, ret, recArgs, recLocals, selArgs, candidates, i2, scoVars, fnVars>>

\* line 66: the loop condition of the first pass fails
FirstPassExit ==
  /\ pc = "firstPass"
  /\ ~(i1 < Len(candidates) /\ Len(selected) < selCount)
  /\ i2' = 0
  /\ pc' = "secondPass"
  /\ UNCHANGED <<ret, recArgs, recLocals, selArgs, candidates, selected,
                 usedInFirstPass, i1, scoVars, fnVars>>

\* variant: the second pass does not look at usedInFirstPass
SecondPassStep_IgnoresUsed ==
  /\ pc = "secondPass"
  /\ i2 < Len(candidates) /\ Len(selected) < selCount
  /\ selected' = Append(selected, candidates[i2 + 1])
  /\ i2' = i2 + 1
  /\ UNCHANGED <<pc, ret, recArgs, recLocals, selArgs, candidates,
                 usedInFirstPass, i1, scoVars, fnVars>>

\* variant: the second pass applies the constraints again
SecondPassStep_Constrained ==
  /\ pc = "secondPass"
  /\ i2 < Len(candidates) /\ Len(selected) < selCount
  /\ selected' = IF /\ i2 \notin usedInFirstPass
                    /\ passesAll(selOptions.constraints, selected, candidates[i2 + 1])
                 THEN Append(selected, candidates[i2 + 1]) ELSE selected
  /\ i2' = i2 + 1
  /\ UNCHANGED <<pc, ret, recArgs, recLocals, selArgs, candidates,
                 usedInFirstPass, i1, scoVars, fnVars>>

\* lines 76-84: one iteration of the second pass
SecondPassStep ==
  /\ pc = "secondPass"
  /\ i2 < Len(candidates) /\ Len(selected) < selCount
  /\ selected' = IF i2 \notin usedInFirstPass
                 THEN Append(selected, candidates[i2 + 1]) ELSE selected
  /\ i2' = i2 + 1
  /\ UNCHANGED <<pc, ret, recArgs, recLocals, selArgs, candidates,
                 usedInFirstPass, i1, scoVars, fnVars>>

\* lines 78, 86: the loop condition of the second pass fails; return selected
SelectModelsReturn ==
  /\ pc = "secondPass"
  /\ ~(i2 < Len(candidates) /\ Len(selected) < selCount)
  /\ ret' = selected
  /\ pc' = "returned"
  /\ UNCHANGED <<recArgs, recLocals, selArgs, selLocals, scoVars, fnVars>>

NextSelect ==
  \/ SelectModelsEmpty
  \/ SelectModelsBegin
  \/ FirstPassStep
  \/ FirstPassExit
  \/ SecondPassStep
  \/ SelectModelsReturn

SpecSelect == InitSelect /\ [][NextSelect]_vars

\* the first pass of selectModels (lines 66-73) as a function: the selected
\* list and the admitted indices after the loop, with every constraint
\* evaluated against prior followed by the records selected so far
firstPassAfter(prior, cands, count, cs) ==
  LET F[i \in 0..Len(cands)] ==
        IF i = 0 THEN [selected |-> <<>>, used |-> {}]
        ELSE LET acc == F[i - 1]
             IN IF Len(acc.selected) < count /\ passesAll(cs, prior \o acc.selected, cands[i])
                THEN [selected |-> Append(acc.selected, cands[i]),
                      used |-> acc.used \cup {i - 1}]
                ELSE acc
  IN F[Len(cands)]

\* the two passes of selectModels (lines 62-86) as a function
selectModelsAfter(prior, cands, count, cs) ==
  LET fp == firstPassAfter(prior, cands, count, cs)
      F[i \in 0..Len(cands)] ==
        IF i = 0 THEN fp.selected
        ELSE LET acc == F[i - 1]
             IN IF Len(acc) < count /\ (i - 1) \notin fp.used
                THEN Append(acc, cands[i]) ELSE acc
  IN F[Len(cands)]

\* selectModels as a function of its arguments
selectModelsOf(list, opts) ==
  IF Len(candidatesOf(list, opts)) = 0 THEN <<>>
  ELSE selectModelsAfter(<<>>, candidatesOf(list, opts), OrElse(opts.count, 1),
                         opts.constraints)


(***************************************************************************)
(* scoreModels                                                             *)
(***************************************************************************)
InitScore ==
  /\ pc = "scoreModels"
  /\ ret = <<>>
  /\ models \in OrderedLists(MaxLen)
  /\ criteria \in CriteriaLists
  /\ mapped = <<>>
  /\ RecIdle
  /\ SelIdle
  /\ FnIdle

\* line 205: if (models.length === 0) return []
ScoreModelsEmpty ==
  /\ pc = "scoreModels"
  /\ Len(models) = 0
  /\ ret' = <<>>
  /\ pc' = "scored"
  /\ UNCHANGED <<recArgs, recLocals, selArgs, selLocals, scoVars, fnVars>>

\* lines 207-218: the map over the models
ScoreModelsMap ==
  /\ pc = "scoreModels"
  /\ Len(models) # 0
  /\ mapped' = scoreAll(models, criteria)
  /\ pc' = "sort"
  /\ UNCHANGED <<ret, recArgs, recLocals, selArgs, selLocals, criteria, fnVars>>

\* variant: the sort is applied to the argument list itself
ScoreModelsSort_InPlace ==
  /\ pc = "sort"
  /\ ret' = sortByScore(mapped)
  /\ models' = [i \in 1..Len(ret') |-> unscored(ret'[i])]
  /\ pc' = "scored"
  /\ UNCHANGED <<purpose, options, recLocals, selArgs, selLocals, scoVars, fnVars>>

\* line 219: the sort, and the return
ScoreModelsSort ==
  /\ pc = "sort"
  /\ ret' = sortByScore(mapped)
  /\ pc' = "scored"
  /\ UNCHANGED <<recArgs, recLocals, selArgs, selLocals, scoVars, fnVars>>

NextScore ==
  \/ ScoreModelsEmpty
  \/ ScoreModelsMap
  \/ ScoreModelsSort

SpecScore == InitScore /\ [][NextScore]_vars

\* one call of any of the three entry points
InitCalls == Init \/ InitSelect \/ InitScore

NextCalls == Next \/ NextSelect \/ NextScore

SpecCalls == InitCalls /\ [][NextCalls]_vars

\* one call of scoreModels, direct or through recommend
InitScoring == Init \/ InitScore

NextScoring == Next \/ NextScore

SpecScoring == InitScoring /\ [][NextScoring]_vars

(***************************************************************************)
(* One call of a built-in criterion: criterion(model, allModels)           *)
(***************************************************************************)
RangeBasedCriteria ==
  { [fn |-> "costEfficiency"], [fn |-> "contextCapacity"],
    [fn |-> "recency"], [fn |-> "versionFreshness"] }

BuiltInCriteria ==
  RangeBasedCriteria \cup {[fn |-> "tierFit", target |-> TIER_ORDER[t]] : t \in 1..3}

\* the model argument is any catalogue record, in the comparison set or not
InitCriterion ==
  /\ pc = "criterion"
  /\ ret = <<>>
  /\ subject \in Range(Catalog)
  /\ models \in ListsUpTo(MaxLen)
  /\ criterion \in BuiltInCriteria
  /\ outcome = <<>>
  /\ RecIdle
  /\ SelIdle
  /\ ScoIdle

ApplyCriterion ==
  /\ pc = "criterion"
  /\ outcome' = applyCriterion(criterion, subject, models)
  /\ pc' = "evaluated"
  /\ UNCHANGED <<ret, recArgs, recLocals, selArgs, selLocals, scoVars, subject, criterion>>

NextCriterion == ApplyCriterion

SpecCriterion == InitCriterion /\ [][NextCriterion]_vars

(***************************************************************************)
(* One call of a classifier: classifyTier(model), classifyCostTier(model)  *)
(***************************************************************************)
\* prices per 1M tokens, in whole dollars, around the band boundaries
InputPrices == 0..MaxPrice

OutputPrices == {0, 5}

ClassifierIds ==
  {"gpt-4o-mini", "gemini-2-5-pro", "destiny-7b", "claude-sonnet-4", "opus-lite", "gpt-5"}

ClassifierNames ==
  {"GPT-4o Mini", "Gemini 2.5 Pro", "Destiny 7B", "Claude Sonnet 4", "Opus Lite", "GPT-5"}

ClassifierModels ==
  { [id |-> i, name |-> n, provider |-> "openrouter", contextWindow |-> None,
     pricing |-> p, modality |-> None, capabilities |-> None, created |-> None] :
      i \in ClassifierIds, n \in ClassifierNames,
      p \in {None} \cup {Pricing(a, b) : a \in InputPrices, b \in OutputPrices} }

InitClassify ==
  /\ pc = "classify"
  /\ ret = <<>>
  /\ models = <<>>
  /\ subject \in ClassifierModels
  /\ criterion = <<>>
  /\ outcome = <<>>
  /\ RecIdle
  /\ SelIdle
  /\ ScoIdle

ClassifyTier ==
  /\ pc = "classify"
  /\ outcome' = classifyTier(subject)
  /\ pc' = "tierClassified"
  /\ UNCHANGED <<ret, recArgs, recLocals, selArgs, selLocals, scoVars, subject, criterion>>

ClassifyCostTier ==
  /\ pc = "classify"
  /\ outcome' = classifyCostTier(subject)
  /\ pc' = "costClassified"
  /\ UNCHANGED <<ret, recArgs, recLocals, selArgs, selLocals, scoVars, subject, criterion>>

NextClassify ==
  \/ ClassifyTier
  \/ ClassifyCostTier

SpecClassify == InitClassify /\ [][NextClassify]_vars

(***************************************************************************)
(* format.ts, enrich.ts, and the ordinal predicates of classify.ts         *)
(***************************************************************************)
\* String.prototype.charCodeAt, 1-based position, for the characters of
\* identifiers, display names and tier names
charCodeAt(s, i) ==
  LET c == CharAt(s, i)
  IN CASE IndexIn(LowerCase, c) > 0 -> 96 + IndexIn(LowerCase, c)
       [] IndexIn(UpperCase, c) > 0 -> 64 + IndexIn(UpperCase, c)
       [] IndexIn(Digits, c) > 0 -> 47 + IndexIn(Digits, c)
       [] c = " " -> 32
       [] c = "-" -> 45
       [] c = "." -> 46
       [] c = "_" -> 95

\* a < b on two strings: comparison by code units, a proper prefix is smaller
stringLess(a, b) ==
  LET n == Min(Len(a), Len(b))
      diff == {k \in 1..n : CharAt(a, k) # CharAt(b, k)}
  IN IF diff = {} THEN Len(a) < Len(b)
     ELSE charCodeAt(a, SetMin(diff)) < charCodeAt(b, SetMin(diff))

\* Number.prototype.toString for a natural number
RECURSIVE toString(_)
toString(n) ==
  IF n < 10 THEN CharAt(Digits, n + 1)
  ELSE toString(n \div 10) \o CharAt(Digits, (n % 10) + 1)

\* prices are whole dollars: formatNum takes its n === Math.floor(n) branch
formatPricing(pricing) ==
  IF pricing.input = 0 /\ pricing.output = 0 THEN "Free"
  ELSE "$" \o toString(pricing.input) \o "/$" \o toString(pricing.output) \o " per 1M"

\* toFixed(1) of tokens / 1_000_000, and Math.round(tokens / 1000)
formatContextWindow(tokens) ==
  IF tokens >= 1000000
  THEN LET tenths == (tokens + 50000) \div 100000
       IN toString(tenths \div 10) \o "." \o toString(tenths % 10) \o "M"
  ELSE toString((tokens + 500) \div 1000) \o "K"

specialCases ==
  [openai |-> "OpenAI", anthropic |-> "Anthropic", google |-> "Google",
   mistralai |-> "Mistral AI", deepseek |-> "DeepSeek", cohere |-> "Cohere",
   perplexity |-> "Perplexity", nvidia |-> "NVIDIA", amazon |-> "Amazon",
   microsoft |-> "Microsoft"] @@ ("meta-llama" :> "Meta Llama") @@ ("x-ai" :> "xAI")

\* slug.split("-").map(capitalize).join(" ")
capitalizeWords(slug) ==
  LET F[i \in 0..Len(slug)] ==
        IF i = 0 THEN ""
        ELSE LET c == CharAt(slug, i)
                 upper == IF IndexIn(LowerCase, c) > 0
                          THEN CharAt(UpperCase, IndexIn(LowerCase, c)) ELSE c
             IN IF c = "-" THEN F[i - 1] \o " "
                ELSE IF i = 1 \/ CharAt(slug, i - 1) = "-" THEN F[i - 1] \o upper
                ELSE F[i - 1] \o c
  IN F[Len(slug)]

formatProviderName(slug) ==
  IF slug \in DOMAIN specialCases THEN specialCases[slug] ELSE capitalizeWords(slug)

enrich(model) ==
  model @@
  [tier |-> classifyTier(model),
   costTier |-> classifyCostTier(model),
   providerName |-> formatProviderName(model.provider),
   priceLabel |-> IF IsSome(model.pricing) THEN formatPricing(model.pricing[1]) ELSE "",
   contextLabel |-> IF contextWindowOf(model) # 0
                    THEN formatContextWindow(contextWindowOf(model)) ELSE ""]

maxTier(threshold, model) ==
  indexOf(TIER_ORDER, classifyTier(model)) <= indexOf(TIER_ORDER, threshold)

minTier(threshold, model) ==
  indexOf(TIER_ORDER, classifyTier(model)) >= indexOf(TIER_ORDER, threshold)

maxCost(threshold, model) ==
  indexOf(COST_ORDER, classifyCostTier(model)) <= indexOf(COST_ORDER, threshold)

minCost(threshold, model) ==
  indexOf(COST_ORDER, classifyCostTier(model)) >= indexOf(COST_ORDER, threshold)

\* README: models.filter(m => m.costTier <= Cost.Standard), "affordable
\* models"; a <= b on two strings is not (b < a)
affordable(m) == ~stringLess(Cost.Standard, m.costTier)

\* README: models.filter(m => m.tier >= Tier.Standard), "capable models";
\* a >= b on two strings is not (a < b)
capable(m) == ~stringLess(m.tier, Tier.Standard)

(***************************************************************************)
(* One call of enrich(model)                                               *)
(***************************************************************************)
InitEnrich ==
  /\ pc = "enrich"
  /\ ret = <<>>
  /\ models = <<>>
  /\ subject \in ClassifierModels
  /\ criterion = <<>>
  /\ outcome = <<>>
  /\ RecIdle
  /\ SelIdle
  /\ ScoIdle

Enrich ==
  /\ pc = "enrich"
  /\ outcome' = enrich(subject)
  /\ pc' = "enriched"
  /\ UNCHANGED <<ret, recArgs, recLocals, selArgs, selLocals, scoVars, subject, criterion>>

SpecEnrich == InitEnrich /\ [][Enrich]_vars

(***************************************************************************)
(* Vocabulary of the properties of recommend                               *)
(***************************************************************************)
Returned == pc = "done"

KnownPurpose == IsSome(resolveProfile(purpose))

\* tier distance of a record from the preferred tier of the call
Dist(m) == tierDistance(classifyTier(m), profileOf(purpose).preferredTier)

\* the input records that pass the filters of the call
Filtered == filteredOf(models, purpose, options)

InRet(m) == \E i \in 1..Len(ret) : unscored(ret[i]) = m

DiversityOn == countOf(options) > 1 /\ useDiversityOf(options)

\* C1: in every list returned by recommend the tier distance from the
\* preferred tier is non-decreasing along the list, whatever the scores,
\* with provider diversity on or off
C1_TierDistanceNonDecreasing ==
  (Returned /\ KnownPurpose) =>
    LET dist == [i \in 1..Len(ret) |-> Dist(ret[i])]
    IN \A i, j \in 1..Len(ret) : i < j => dist[i] <= dist[j]

\* an on-tier record is returned ahead of an off-tier record of strictly
\* higher score, with provider diversity on
C1_Witness ==
  /\ Returned /\ KnownPurpose /\ DiversityOn
  /\ \E i, j \in 1..Len(ret) :
       /\ i < j
       /\ Dist(ret[i]) = 0 /\ Dist(ret[j]) > 0
       /\ RLess(ret[i].score, ret[j].score)

\* C2: a record at tier distance d > 0 is returned only if every record that
\* passed the filters at a smaller distance is returned too
C2_NearerTiersExhaustedFirst ==
  (Returned /\ KnownPurpose) =>
    LET filtered == Filtered
        distFiltered == [k \in 1..Len(filtered) |-> Dist(filtered[k])]
        distRet == [i \in 1..Len(ret) |-> Dist(ret[i])]
    IN \A i \in 1..Len(ret) : \A k \in 1..Len(filtered) :
         distFiltered[k] < distRet[i] => InRet(filtered[k])

\* with diversity on, a second on-tier record of a provider is returned next
\* to an off-tier record while the filtered set holds a further provider
C2_Witness ==
  /\ Returned /\ KnownPurpose /\ DiversityOn
  /\ \E i, j, l \in 1..Len(ret) :
       /\ i < j /\ j < l
       /\ Dist(ret[i]) = 0 /\ Dist(ret[j]) = 0 /\ Dist(ret[l]) > 0
       /\ ret[i].provider = ret[j].provider
       /\ ret[l].provider # ret[i].provider

\* min(count, F)
ExpectedLength == Min(countOf(options), Len(Filtered))

\* C3: recommend returns exactly min(count, F) records, F the number of
\* input records that pass the filters; no record is returned twice and
\* every returned record is an input record
C3_ReturnsMinCountFiltered ==
  (Returned /\ KnownPurpose) =>
    /\ Len(ret) = ExpectedLength
    /\ \A i, j \in 1..Len(ret) : i # j => ret[i] # ret[j]
    /\ \A i \in 1..Len(ret) : unscored(ret[i]) \in Range(models)

\* fewer eligible records than requested: the filters dropped an input
\* record and all the rest is returned
C3_Witness ==
  /\ Returned /\ KnownPurpose
  /\ Len(ret) > 1
  /\ Len(ret) < countOf(options)
  /\ Len(ret) < Len(models)

\* the hard rules of a profile, read off the profile record
SatisfiesHardRules(m, profile) ==
  /\ (IsSome(profile.require) /\ profile.require[1].tools = Some(TRUE))
       => (IsSome(m.capabilities) /\ m.capabilities[1].tools = Some(TRUE))
  /\ (IsSome(profile.require) /\ IsSome(profile.require[1].minContext))
       => OrElse(m.contextWindow, 0) >= profile.require[1].minContext[1]
  /\ (IsSome(profile.exclude) /\ IsSome(profile.exclude[1].tiers))
       => classifyTier(m) \notin Range(profile.exclude[1].tiers[1])
  /\ (IsSome(profile.exclude) /\ IsSome(profile.exclude[1].patterns))
       => \A p \in Range(profile.exclude[1].patterns[1]) :
             /\ ~includes(toLowerCase(m.id), toLowerCase(p))
             /\ ~includes(toLowerCase(m.name), toLowerCase(p))

\* C4: every record returned by recommend satisfies all hard rules of the
\* profile (tools, minimum context, excluded tiers, excluded patterns)
C4_ResultSatisfiesHardRules ==
  (Returned /\ KnownPurpose) =>
    \A i \in 1..Len(ret) : SatisfiesHardRules(ret[i], profileOf(purpose))

\* the rules are not relaxed to fill the count: a profile with rules returns
\* fewer records than requested although more input records exist
C4_Witness ==
  /\ Returned /\ KnownPurpose
  /\ IsSome(profileOf(purpose).require) /\ IsSome(profileOf(purpose).exclude)
  /\ Len(ret) > 0
  /\ Len(ret) < countOf(options)
  /\ \E i \in 1..Len(models) :
       ~SatisfiesHardRules(models[i], profileOf(purpose)) /\ isTextFocused(models[i])

\* C5: recommend called with a purpose name that is not in the registry
\* fails with an error for every model list, the empty list included: it
\* never returns a list
C5_UnknownPurposeNeverReturns ==
  (purpose.kind = "name" /\ purpose.name \notin DOMAIN purposes) => pc # "done"

\* the declared output modality list, if any, includes image, audio or video
DeclaresMediaOutput(m) ==
  /\ IsSome(m.modality)
  /\ \E k \in 1..Len(m.modality[1].output) :
       m.modality[1].output[k] \in {"image", "audio", "video"}

\* the declared output modality list, if any, lacks text
DeclaresNoTextOutput(m) ==
  /\ IsSome(m.modality)
  /\ \A k \in 1..Len(m.modality[1].output) : m.modality[1].output[k] # "text"

TextFocusDefault == options.textOnly # Some(FALSE)

\* a profile without require and exclude rules, and a count that covers the
\* whole input: only the text-focus filter can drop a record
OnlyTextFocusFilters ==
  /\ KnownPurpose
  /\ ~IsSome(profileOf(purpose).require) /\ ~IsSome(profileOf(purpose).exclude)
  /\ countOf(options) >= Len(models)

\* C6 as stated: with the default text-focus filter a record is dropped if
\* and only if its declared outputs include image, audio or video
C6_DroppedIffMediaOutput ==
  (Returned /\ TextFocusDefault /\ OnlyTextFocusFilters) =>
    \A i \in 1..Len(models) : ~InRet(models[i]) <=> DeclaresMediaOutput(models[i])

\* C6 amended: with the default text-focus filter a record is dropped if and
\* only if it declares an output modality list that includes image, audio or
\* video or that does not include text
C6_DroppedIffNotTextOnly ==
  /\ (Returned /\ TextFocusDefault /\ KnownPurpose) =>
       \A i \in 1..Len(models) :
         (DeclaresMediaOutput(models[i]) \/ DeclaresNoTextOutput(models[i]))
           => ~InRet(models[i])
  /\ (Returned /\ TextFocusDefault /\ OnlyTextFocusFilters) =>
       \A i \in 1..Len(models) :
         ~(DeclaresMediaOutput(models[i]) \/ DeclaresNoTextOutput(models[i]))
           => InRet(models[i])

\* one call in which the filter drops a media record and a record without
\* text output, and keeps a record with no declared modality
C6_Witness ==
  /\ Returned /\ TextFocusDefault /\ OnlyTextFocusFilters
  /\ \E i, j, k \in 1..Len(models) :
       /\ DeclaresMediaOutput(models[i]) /\ ~InRet(models[i])
       /\ DeclaresNoTextOutput(models[j]) /\ ~DeclaresMediaOutput(models[j])
       /\ ~InRet(models[j])
       /\ ~IsSome(models[k].modality) /\ InRet(models[k])

(***************************************************************************)
(* Vocabulary of the properties of selectModels                            *)
(***************************************************************************)
SelectReturned == pc = "returned"

\* the positions of the scored input that pass the pre-filter
PassingPositions ==
  {k \in 1..Len(scored) :
     IsSome(selOptions.filter) => applyFilter(selOptions.filter[1], scored[k])}

\* the records admitted after the first pass
AddedBySecondPass == Len(selected) - Cardinality(usedInFirstPass)

\* C7: selectModels returns exactly min(count, C) records, C the number of
\* records that pass the filter, whatever the constraints
C7_SelectReturnsMinCountCandidates ==
  SelectReturned => Len(ret) = Min(selCount, Cardinality(PassingPositions))

\* the constraints cannot be met by count candidates: the second pass fills
\* the result up to count
C7_Witness ==
  /\ SelectReturned
  /\ Len(selOptions.constraints) = 2
  /\ AddedBySecondPass > 0
  /\ Len(ret) = selCount
  /\ Len(ret) < Len(candidates)

\* the scored input is sorted by score descending
InputSorted == \A a, b \in 1..Len(scored) : a < b => RLeq(scored[b].score, scored[a].score)

\* C8: with no constraints selectModels returns the first min(count, C)
\* records of the filtered input, in input order; every returned record
\* satisfies the filter, and for an input sorted by score descending no
\* candidate left out has a higher score than a returned one
C8_NoConstraintsTakesPrefix ==
  (SelectReturned /\ Len(selOptions.constraints) = 0) =>
    LET n == Min(selCount, Cardinality(PassingPositions))
        pos == SelectIdx([k \in 1..Len(scored) |-> k], LAMBDA k : k \in PassingPositions)
    IN /\ ret = [k \in 1..n |-> scored[pos[k]]]
       /\ InputSorted =>
            \A k \in 1..Len(pos) : k > n =>
              \A r \in 1..Len(ret) : RLeq(scored[pos[k]].score, ret[r].score)

\* a filter narrows a sorted input before the count is applied
C8_Witness ==
  /\ SelectReturned /\ Len(selOptions.constraints) = 0
  /\ InputSorted
  /\ IsSome(selOptions.filter)
  /\ Len(ret) >= 1
  /\ Len(candidates) > Len(ret)
  /\ ret[1] # scored[1]

DiversityOnly == selOptions.constraints = <<providerDiversity(1)>>

\* C9: with the single constraint providerDiversity(1) the records admitted
\* by the first pass have pairwise distinct providers and each is the first
\* candidate of its provider; the second pass admits a record only after the
\* first pass has examined every candidate; the result holds two records of
\* one provider only if every provider among the candidates is in the result
C9_DiversityFirstPassThenBackfill ==
  DiversityOnly =>
    /\ \A a, b \in usedInFirstPass :
         a # b => candidates[a + 1].provider # candidates[b + 1].provider
    /\ \A a \in usedInFirstPass : \A b \in 0..(a - 1) :
         candidates[b + 1].provider # candidates[a + 1].provider
    /\ AddedBySecondPass > 0 => (pc \in {"secondPass", "returned"} /\ i1 = Len(candidates))
    /\ (SelectReturned /\ \E a, b \in 1..Len(ret) : a # b /\ ret[a].provider = ret[b].provider)
         => \A c \in 1..Len(candidates) :
              \E r \in 1..Len(ret) : ret[r].provider = candidates[c].provider

\* the second pass back-fills a record of a provider already in the result
C9_Witness ==
  /\ SelectReturned /\ DiversityOnly
  /\ Len(ret) = 3
  /\ Cardinality(usedInFirstPass) = 2
  /\ ret[3].provider = ret[1].provider

(***************************************************************************)
(* Vocabulary of the properties of scoreModels                             *)
(***************************************************************************)
ScoreReturned == pc = "scored"

\* the position of a returned record in the input list
InputPosition(m) == CHOOSE k \in 1..Len(models) : models[k] = unscored(m)

\* C10: scoreModels returns a permutation of its input, each record with a
\* score, ordered by score non-increasing; records with equal scores keep
\* their relative input order
C10_ScoreModelsSortedStablePermutation ==
  ScoreReturned =>
    /\ Len(ret) = Len(models)
    /\ \A k \in 1..Len(ret) : "score" \in DOMAIN ret[k] /\ unscored(ret[k]) \in Range(models)
    /\ \A k \in 1..Len(models) : \E r \in 1..Len(ret) : unscored(ret[r]) = models[k]
    /\ \A a, b \in 1..Len(ret) : a < b =>
         /\ RLeq(ret[b].score, ret[a].score)
         /\ ret[a].score = ret[b].score => InputPosition(ret[a]) < InputPosition(ret[b])

\* the sort moves a record forward past two records that tie with each other
C10_Witness ==
  /\ ScoreReturned
  /\ Len(ret) = 3
  /\ unscored(ret[1]) = models[3]
  /\ RLess(ret[2].score, ret[1].score)
  /\ ret[2].score = ret[3].score
  /\ RLess(Zero, ret[2].score)

(***************************************************************************)
(* Properties of the scores                                                *)
(***************************************************************************)
InUnitInterval(r) == RLeq(Zero, r) /\ RLeq(r, One)

NonNegativeWeights == \A i \in 1..Len(criteria) : RLeq(Zero, criteria[i].weight)

scaleWeights(cs, k) == [i \in 1..Len(cs) |-> [cs[i] EXCEPT !.weight = RMul(@, k)]]

ScaleFactors == {Rat(1, 10), Rat(1, 3), Rat(2, 1), Rat(7, 1)}

C13_ZeroTotalWeightScoresZero ==
  (ScoreReturned /\ totalWeightOf(criteria) = Zero) =>
    /\ Len(ret) = Len(models)
    /\ \A k \in 1..Len(ret) : unscored(ret[k]) = models[k] /\ ret[k].score = Zero

\* two criteria of weight 0 over three records that differ on both criteria
C13_Witness ==
  /\ ScoreReturned
  /\ Len(criteria) = 2 /\ totalWeightOf(criteria) = Zero
  /\ Len(ret) = 3
  /\ \A i \in 1..2 :
       applyCriterion(criteria[i].criterion, models[1], models)
         # applyCriterion(criteria[i].criterion, models[3], models)

(***************************************************************************)
(* Properties of the criteria                                              *)
(***************************************************************************)
Evaluated == pc = "evaluated"

SubjectInSet == subject \in Range(models)

\* the input prices of the comparison set, missing pricing counted as 0
SetPrices == {pricingInput(models[i]) : i \in 1..Len(models)}

\* C14: for a member of the comparison set costEfficiency returns 1 for a
\* minimum-priced model and 0 for a maximum-priced model when the set holds
\* two distinct prices, and 0 for every model when all its prices are equal
C14_CostEfficiencyEndpoints ==
  (Evaluated /\ criterion.fn = "costEfficiency" /\ SubjectInSet) =>
    LET price == pricingInput(subject)
    IN IF Cardinality(SetPrices) >= 2
       THEN /\ price = SetMin(SetPrices) => outcome = One
            /\ price = SetMax(SetPrices) => outcome = Zero
       ELSE outcome = Zero

\* the record without pricing is the cheapest of three prices
C14_Witness ==
  /\ Evaluated /\ criterion.fn = "costEfficiency" /\ SubjectInSet
  /\ Cardinality(SetPrices) = 3
  /\ ~IsSome(subject.pricing)
  /\ outcome = One

\* C15: for every model and every non-empty comparison set, each built-in
\* criterion returns a value in [0, 1], whether or not the model is a member
\* of the set
C15_CriterionInUnitInterval ==
  (Evaluated /\ Len(models) > 0) => InUnitInterval(outcome)

\* C16: each range-based criterion returns 0 when the comparison set is empty
\* and when it is a singleton
C16_EmptyOrSingletonSetGivesZero ==
  (Evaluated /\ criterion \in RangeBasedCriteria /\ Len(models) <= 1) => outcome = Zero

(***************************************************************************)
(* Properties of the classifiers                                           *)
(***************************************************************************)
CostClassified == pc = "costClassified"

TierClassified == pc = "tierClassified"

\* C17: for a positive input price p the cost tier is Budget when 0 < p < 2,
\* Standard when 2 <= p < 10, Premium when 10 <= p < 20 and Ultra when
\* p >= 20; a model with no pricing is Free
C17_CostTierBands ==
  CostClassified =>
    /\ ~IsSome(subject.pricing) => outcome = Cost.Free
    /\ IsSome(subject.pricing) =>
         LET p == subject.pricing[1].input
         IN /\ (0 < p /\ p < 2) => outcome = Cost.Budget
            /\ (2 <= p /\ p < 10) => outcome = Cost.Standard
            /\ (10 <= p /\ p < 20) => outcome = Cost.Premium
            /\ p >= 20 => outcome = Cost.Ultra

\* an input price on a lower boundary falls in the upper band
C17_Witness ==
  /\ CostClassified
  /\ IsSome(subject.pricing) /\ subject.pricing[1].input = 10
  /\ outcome = Cost.Premium

\* the subject with any other pricing of the universe
Repriced ==
  {[subject EXCEPT !.pricing = p] :
     p \in {None} \cup {Pricing(a, b) : a \in InputPrices, b \in OutputPrices}}

\* C18: the cost tier depends on the input price alone and is monotone in it:
\* an input price of 0 gives Free whatever the output price, and a model with
\* an input price at least as high (missing pricing counted as 0) has a cost
\* tier at least as high in the order Free < Budget < Standard < Premium < Ultra
C18_CostTierMonotoneInInputPrice ==
  CostClassified =>
    /\ pricingInput(subject) = 0 => outcome = Cost.Free
    /\ \A b \in Repriced :
         pricingInput(subject) <= pricingInput(b) =>
           indexOf(COST_ORDER, outcome) <= indexOf(COST_ORDER, classifyCostTier(b))

\* the lower-cased id and display name of a record
LowerId(m) == toLowerCase(m.id)

LowerName(m) == toLowerCase(m.name)

\* an efficient signal, as the classifier reads it: a token after a hyphen
\* in the id or after a space in the name, or haiku or tiny anywhere
CarriesEfficientSignal(m) ==
  \/ \E t \in {"mini", "nano", "lite", "flash", "small"} :
        includes(LowerId(m), "-" \o t) \/ includes(LowerName(m), " " \o t)
  \/ \E t \in {"haiku", "tiny"} : includes(LowerId(m), t) \/ includes(LowerName(m), t)

\* a flagship token: opus or ultra anywhere, pro after a hyphen or a space
CarriesFlagshipToken(m) ==
  \/ \E t \in {"opus", "ultra"} : includes(LowerId(m), t) \/ includes(LowerName(m), t)
  \/ includes(LowerId(m), "-pro") \/ includes(LowerName(m), " pro")

\* C19: classifyTier applies a fixed first-match order: a model with an
\* efficient signal is Efficient even with a flagship token or an input price
\* >= 10; without one it is Flagship exactly when it carries a flagship token
\* or its input price is >= 10; every other model is Standard
C19_TierFirstMatchOrder ==
  TierClassified =>
    /\ CarriesEfficientSignal(subject) => outcome = Tier.Efficient
    /\ ~CarriesEfficientSignal(subject) =>
         (outcome = Tier.Flagship
            <=> (CarriesFlagshipToken(subject) \/ pricingInput(subject) >= 10))
    /\ (/\ ~CarriesEfficientSignal(subject)
        /\ ~CarriesFlagshipToken(subject)
        /\ pricingInput(subject) < 10) => outcome = Tier.Standard

\* an efficient signal together with a flagship token and a high price
C19_Witness ==
  /\ TierClassified
  /\ subject.id = "opus-lite"
  /\ CarriesEfficientSignal(subject) /\ CarriesFlagshipToken(subject)
  /\ pricingInput(subject) >= 10
  /\ outcome = Tier.Efficient

EfficientTokens == {"mini", "nano", "lite", "flash", "haiku", "tiny", "small"}

\* t occurs in s with no word character right before it and right after it:
\* at an end of the string, or next to a hyphen, a space or a dot
BoundedOccurrence(t, s) ==
  \E i \in 1..(Len(s) - Len(t) + 1) :
    /\ SubSeq(s, i, i + Len(t) - 1) = t
    /\ (i > 1 => ~isWordChar(CharAt(s, i - 1)))
    /\ (i + Len(t) <= Len(s) => ~isWordChar(CharAt(s, i + Len(t))))

\* C20: an efficient token makes a model Efficient only as a word-or-hyphen-
\* bounded substring of the id or of the display name; a token that is part
\* of a longer word (mini in gemini) never does
C20_EfficientOnlyByBoundedToken ==
  (TierClassified /\ outcome = Tier.Efficient) =>
    \E t \in EfficientTokens :
      BoundedOccurrence(t, LowerId(subject)) \/ BoundedOccurrence(t, LowerName(subject))

(***************************************************************************)
(* Properties of enrich and the range filters                              *)
(***************************************************************************)
Enriched == pc = "enriched"

\* C21: on an enriched model the README's relational filters agree with
\* the ordinal predicates: m.costTier <= Cost.Standard holds exactly when
\* maxCost(Cost.Standard) accepts the model (Free, Budget, Standard), and
\* m.tier >= Tier.Standard exactly when minTier(Tier.Standard) accepts it
\* (Standard, Flagship).
C21_RelationalFiltersAgreeWithOrdinal ==
  Enriched =>
    /\ affordable(outcome) <=> maxCost(Cost.Standard, subject)
    /\ capable(outcome) <=> minTier(Tier.Standard, subject)

(***************************************************************************)
(* Frame of the three entry points                                         *)
(***************************************************************************)
\* C22: scoreModels, selectModels and recommend leave their arguments
\* unchanged: no step of a call changes the caller's model list (length,
\* records, order, fields), the purpose or profile, the options, the scored
\* list or the criteria; the candidate list of selectModels, which is the
\* scored list itself when no filter is given, is not changed by the passes.
C22_ArgumentsUnchanged ==
  [][/\ models' = models
     /\ purpose' = purpose
     /\ options' = options
     /\ scored' = scored
     /\ selOptions' = selOptions
     /\ criteria' = criteria
     /\ pc \in {"firstPass", "secondPass"} => candidates' = candidates]_vars

\* scoreModels has returned a list in another order than the argument's
C22_Witness ==
  /\ pc = "scored"
  /\ Len(ret) >= 2
  /\ Len(ret) = Len(models)
  /\ \E i \in 1..Len(ret) : unscored(ret[i]) # models[i]

(***************************************************************************)
(* Provider diversity in recommend                                         *)
(***************************************************************************)
\* the buckets of the call, nearest tier first, as one list
BucketsInOrder ==
  LET tiered == groupByTierDistance(scoredOf(models, purpose, options),
                                    profileOf(purpose).preferredTier)
  IN tiered[1] \o tiered[2] \o tiered[3]

DiversityOmitted == options.providerDiversity = None

ProvidersBefore(j) == {ret[i].provider : i \in 1..(j - 1)}

\* every record at a position whose provider was already selected is there
\* only because its bucket holds no unselected record of a new provider
RepeatsOnlyWhenBucketExhausted ==
  \A j \in 2..Len(ret) :
    ret[j].provider \in ProvidersBefore(j) =>
      \A i \in 1..Len(Filtered) :
        (Dist(Filtered[i]) = Dist(ret[j]) /\ Filtered[i].provider \notin ProvidersBefore(j))
          => InRet(Filtered[i])

\* C24: when count > 1 and no providerDiversity option is given, recommend
\* applies provider diversity by default: a second record of a provider that
\* is already selected is returned only when the tier bucket being selected
\* from holds no unselected record of another provider.
C24_DiversityByDefault ==
  (Returned /\ KnownPurpose /\ DiversityOmitted /\ countOf(options) > 1) =>
    RepeatsOnlyWhenBucketExhausted

\* selectFromTierGroups is about to select from a non-empty bucket
SelectingFromBucket ==
  /\ pc = "selectFromTierGroups"
  /\ g <= Len(groups)
  /\ Len(result) < countOf(options)
  /\ Len(groups[g]) > 0

\* the records the first pass admits from the bucket being selected from
FirstPassOfBucket ==
  groupFirstPass(result, groups[g], countOf(options) - Len(result), constraints).firstPass

\* C25: with providerDiversity: true and count > 1 the diversity constraint
\* is evaluated against all records already chosen in the call, across tier
\* buckets: the first pass of a bucket admits a candidate only if no record
\* selected from an earlier bucket or from this bucket has its provider; so
\* in the returned list a provider repeats only once its bucket is exhausted.
C25_DiversityAcrossBuckets ==
  /\ (SelectingFromBucket /\ DiversityOn) =>
       \A k \in 1..Len(FirstPassOfBucket) :
         /\ \A i \in 1..Len(result) : result[i].provider # FirstPassOfBucket[k].provider
         /\ \A i \in 1..(k - 1) :
              FirstPassOfBucket[i].provider # FirstPassOfBucket[k].provider
  /\ (Returned /\ KnownPurpose /\ DiversityOn) => RepeatsOnlyWhenBucketExhausted

\* a later bucket whose best candidate is passed over by the first pass,
\* because its provider was selected from an earlier bucket, for another
C25_Witness ==
  /\ SelectingFromBucket /\ DiversityOn
  /\ g >= 2
  /\ Len(result) > 0
  /\ Len(FirstPassOfBucket) > 0
  /\ FirstPassOfBucket[1] # groups[g][1]
  /\ \E i \in 1..Len(result) : result[i].provider = groups[g][1].provider

(***************************************************************************)
(* The score attached by recommend                                         *)
(***************************************************************************)
\* a weight that is not positive takes no part in the score
PositivePart(w) == IF RLess(Zero, w) THEN w ELSE Zero

\* the renormalised weighted sum of the four criteria for record m, each
\* criterion normalised over the list S; 0 when no axis has a positive weight
WeightedSum(m, S, weights) ==
  LET cost == PositivePart(weights.cost)
      quality == PositivePart(weights.quality)
      context == PositivePart(weights.context)
      half == RDiv(quality, Rat(2, 1))
      total == RAdd(cost, RAdd(quality, context))
      sum == RAdd(RAdd(RMul(cost, costEfficiency(m, S)),
                       RMul(half, versionFreshness(m, S))),
                  RAdd(RMul(half, recency(m, S)),
                       RMul(context, contextCapacity(m, S))))
  IN IF total = Zero THEN Zero ELSE RDiv(sum, total)

\* C26: the score of every record returned by recommend is the renormalised
\* weighted sum (cost x costEfficiency + quality/2 x versionFreshness +
\* quality/2 x recency + context x contextCapacity) / (cost + quality +
\* context) over the axes of positive weight, each criterion normalised over
\* exactly the records that passed the filters.
C26_ScoreIsWeightedSumOverFiltered ==
  (Returned /\ KnownPurpose) =>
    \A i \in 1..Len(ret) :
      ret[i].score = WeightedSum(unscored(ret[i]), Filtered, profileOf(purpose).weights)

\* a returned record with a score strictly inside (0, 1), from a call in
\* which a record was filtered out and the rest spans two tier buckets
C26_Witness ==
  /\ Returned /\ KnownPurpose
  /\ Len(ret) >= 1
  /\ RLess(Zero, ret[1].score) /\ RLess(ret[1].score, One)
  /\ Len(Filtered) < Len(models)
  /\ \E i, j \in 1..Len(Filtered) : Dist(Filtered[i]) # Dist(Filtered[j])

(***************************************************************************)
(* Order of the list returned by recommend                                 *)
(***************************************************************************)
DiversityDisabled == ~useDiversityOf(options)

\* C27 as stated: with providerDiversity disabled the list returned by
\* recommend is sorted by score descending, for every model list, profile
\* and count: result[i-1].score >= result[i].score for every adjacent pair.
C27_SortedByScore ==
  (Returned /\ KnownPurpose /\ DiversityDisabled) =>
    \A i \in 2..Len(ret) : RLeq(ret[i].score, ret[i - 1].score)

\* C27, amended: with providerDiversity disabled the returned list is sorted
\* by score descending within each tier-distance bucket: for every adjacent
\* pair at the same tier distance from the preferred tier,
\* result[i-1].score >= result[i].score.
C27_SortedByScoreWithinBucket ==
  (Returned /\ KnownPurpose /\ DiversityDisabled) =>
    \A i \in 2..Len(ret) :
      Dist(ret[i - 1]) = Dist(ret[i]) => RLeq(ret[i].score, ret[i - 1].score)

\* a returned list with a strictly descending pair inside one bucket and a
\* strictly ascending pair across two buckets
C27_Witness ==
  /\ Returned /\ KnownPurpose /\ DiversityDisabled
  /\ \E i \in 2..Len(ret) :
       Dist(ret[i - 1]) = Dist(ret[i]) /\ RLess(ret[i].score, ret[i - 1].score)
  /\ \E i \in 2..Len(ret) :
       Dist(ret[i - 1]) < Dist(ret[i]) /\ RLess(ret[i - 1].score, ret[i].score)

(***************************************************************************)
(* recommend and selectModels                                              *)
(***************************************************************************)
\* all records that passed the filters are in one tier bucket
OneBucket == \A i, j \in 1..Len(Filtered) : Dist(Filtered[i]) = Dist(Filtered[j])

\* C28: the selection recommend performs inside one tier bucket is the
\* two-pass algorithm of selectModels: for the bucket, the prior result R,
\* the remaining count r and the constraint list it yields the list of
\* selectModels(bucket, {count: r, constraints}) with each constraint
\* evaluated against R followed by the records admitted so far; and when all
\* filtered records are in one bucket, recommend with providerDiversity: true
\* equals selectModels(scoreModels(filtered, criteria), {count, constraints:
\* [providerDiversity()]}).  selectModelsOf is the function selectModels
\* computes step by step.
C28_BucketSelectionIsSelectModels ==
  /\ SelectingFromBucket =>
       selectFromGroup(result, groups[g], countOf(options), constraints)
         = selectModelsAfter(result, groups[g], countOf(options) - Len(result), constraints)
  /\ (Returned /\ KnownPurpose /\ options.providerDiversity = Some(TRUE) /\ OneBucket) =>
       ret = selectModelsOf(scoreModels(Filtered, buildCriteria(profileOf(purpose))),
                            [count |-> options.count,
                             constraints |-> <<providerDiversity(1)>>,
                             filter |-> None])
  /\ SelectReturned => ret = selectModelsOf(scored, selOptions)

\* a bucket from which the second pass takes a record the first pass skipped
\* because its provider was selected from an earlier bucket
C28_Witness ==
  /\ SelectingFromBucket /\ DiversityOn
  /\ Len(result) > 0
  /\ Len(FirstPassOfBucket) > 0
  /\ Len(selectFromGroup(result, groups[g], countOf(options), constraints))
       > Len(FirstPassOfBucket)

(***************************************************************************)
(* recommend as a function of count                                        *)
(***************************************************************************)
IsPrefix(a, b) == Len(a) <= Len(b) /\ SubSeq(b, 1, Len(a)) = a

\* the options of the call with count raised by one
OneMore == [options EXCEPT !.count = Some(countOf(options) + 1)]

\* C29: recommend is prefix-stable in count: for the same models, profile
\* and options the result for count = k is a prefix of the result for
\* count = k + 1, for every k >= 1, also with providerDiversity: true, where
\* the constraint is switched on only from count 2.  The result for
\* count = k + 1 is read from recommendOf, the function the steps of
\* recommend compute.
C29_PrefixStableInCount ==
  /\ (Returned /\ KnownPurpose) => ret = recommendOf(models, purpose, options)
  /\ (Returned /\ KnownPurpose /\ countOf(options) >= 1) =>
       IsPrefix(ret, recommendOf(models, purpose, OneMore))

\* a call with providerDiversity: true and count 2 whose result skips the
\* second-best record of the nearest bucket, and grows with count 3
C29_Witness ==
  /\ Returned /\ KnownPurpose
  /\ options.providerDiversity = Some(TRUE)
  /\ countOf(options) = 2
  /\ Len(ret) = 2
  /\ ret # slice(BucketsInOrder, 2)
  /\ Len(recommendOf(models, purpose, OneMore)) = 3

(***************************************************************************)
(* The two passes of selectModels, step by step                            *)
(***************************************************************************)
\* the candidate position (from 0) of a selected record; the records of a
\* scored list are distinct
PositionOf(m) == (CHOOSE k \in 1..Len(candidates) : candidates[k] = m) - 1

\* the records the first pass had selected when it examined position p
SelectedBefore(p) ==
  SubSeq(selected, 1, Cardinality({q \in usedInFirstPass : q < p}))

PassedPreFilter(m) ==
  /\ m \in Range(scored)
  /\ IsSome(selOptions.filter) => applyFilter(selOptions.filter[1], m)

\* the positions in selected that the second pass filled
SecondPassPicks == (Cardinality(usedInFirstPass) + 1)..Len(selected)

\* C30: at every step of selectModels, in both passes, the selected list
\* holds at most count records, never holds a candidate position twice and
\* holds only records that passed the pre-filter; the second pass admits only
\* candidates that the first pass examined and rejected, in their original
\* order.
C30_SelectedListInvariant ==
  /\ Len(selected) <= selCount
  /\ \A a, b \in 1..Len(selected) : a # b => selected[a] # selected[b]
  /\ \A k \in 1..Len(selected) :
       selected[k] \in Range(candidates) /\ PassedPreFilter(selected[k])
  /\ pc = "firstPass" => SecondPassPicks = {}
  /\ \A k \in SecondPassPicks :
       LET p == PositionOf(selected[k])
       IN /\ p \notin usedInFirstPass
          /\ p < i1
          /\ ~passesAll(selOptions.constraints, SelectedBefore(p), selected[k])
  /\ \A k, l \in SecondPassPicks :
       k < l => PositionOf(selected[k]) < PositionOf(selected[l])

\* the pre-filter removed a record, and the second pass has filled the list
\* up to count with a candidate the first pass rejected
C30_Witness ==
  /\ pc = "secondPass"
  /\ Len(candidates) < Len(scored)
  /\ Cardinality(usedInFirstPass) >= 1
  /\ Len(selected) >= Cardinality(usedInFirstPass) + 1
  /\ Len(selected) = selCount

=============================================================================
